---------------------------- MODULE Spec2Model ----------------------------
(***************************************************************************)
(* A model of imdb_movie_toolkit.py: the per-year filter pipeline          *)
(* (filter_one_year and the helpers it calls), the year-range resolution   *)
(* and the run of main() from the command line to the written artifact.    *)
(*                                                                         *)
(* Strings the program looks into (genre strings, titles, regex patterns)  *)
(* are sequences of one-character strings.  A table cell that pandas may   *)
(* hold as a number, as a missing value (NaN / <NA>) or as a non-numeric   *)
(* token is a record [kind, num].  Ratings are counted in tenths (80 is    *)
(* 8.0), so that every comparison is an integer comparison.                *)
(***************************************************************************)
EXTENDS Integers, Sequences, FiniteSets, TLC

(***************************************************************************)
(* Bounds of the model.                                                    *)
(***************************************************************************)
\* the year range of a run spans FirstYear .. FirstYear + YearSpan
YearSpan == 2
\* the largest table handed to one call of a pipeline function
MaxRows == 3
\* the largest per-year cap drawn
MaxLimit == 2
\* the most calls of filter_one_year made one after another on one pair of
\* tables
MaxCalls == 2

(***************************************************************************)
(* Characters and strings.                                                 *)
(***************************************************************************)
\* str.lower() / re.IGNORECASE folding of one character
Lower(c) ==
    CASE c = "A" -> "a"
      [] c = "B" -> "b"
      [] c = "C" -> "c"
      [] c = "D" -> "d"
      [] c = "F" -> "f"
      [] c = "O" -> "o"
      [] c = "R" -> "r"
      [] c = "S" -> "s"
      [] OTHER -> c

\* the code point of a character: Python compares str by code point
Ord(c) ==
    CASE c = " " -> 32
      [] c = "," -> 44
      [] c = "-" -> 45
      [] c = "." -> 46
      [] c = "A" -> 65
      [] c = "B" -> 66
      [] c = "C" -> 67
      [] c = "D" -> 68
      [] c = "F" -> 70
      [] c = "O" -> 79
      [] c = "R" -> 82
      [] c = "S" -> 83
      [] c = "\\" -> 92
      [] c = "a" -> 97
      [] c = "b" -> 98
      [] c = "c" -> 99
      [] c = "d" -> 100
      [] c = "f" -> 102
      [] c = "o" -> 111
      [] c = "r" -> 114
      [] c = "s" -> 115
      [] c = "|" -> 124
      [] OTHER -> 0

\* s < t for Python str: the first differing character decides, a proper
\* prefix is smaller
StrLess(s, t) ==
    \E k \in 1..(Len(t)) :
        /\ \A j \in 1..(k - 1) : j <= Len(s) /\ s[j] = t[j]
        /\ k - 1 <= Len(s)
        /\ \/ k = Len(s) + 1
           \/ k <= Len(s) /\ Ord(s[k]) < Ord(t[k])

RECURSIVE Concat(_)
\* "".join(parts)
Concat(parts) ==
    IF parts = <<>> THEN <<>> ELSE Head(parts) \o Concat(Tail(parts))


RECURSIVE Join(_, _)
\* sep.join(parts)
Join(sep, parts) ==
    IF parts = <<>> THEN <<>>
    ELSE IF Len(parts) = 1 THEN Head(parts)
    ELSE Head(parts) \o sep \o Join(sep, Tail(parts))

(***************************************************************************)
(* Regular expressions, as far as build_genre_pattern makes them: escaped  *)
(* literals joined by "|".                                                 *)
(***************************************************************************)
\* the characters re.escape puts a backslash before (those of the alphabet)
SpecialChars == {"-", ".", "|", "\\", " "}

\* re.escape(g)
ReEscape(g) ==
    Concat([i \in 1..Len(g) |->
              IF g[i] \in SpecialChars THEN <<"\\", g[i]>> ELSE <<g[i]>>])

\* build_genre_pattern(genres)
BuildGenrePattern(genres) ==
    Join(<<"|">>, [i \in 1..Len(genres) |-> ReEscape(genres[i])])

\* one atom of a compiled pattern: a literal character or "." (any character)
Lit(c) == [any |-> FALSE, ch |-> c]
AnyChar == [any |-> TRUE, ch |-> "."]

RECURSIVE ReCompile(_, _, _, _)
\* re.compile(p): the alternatives of p, each a sequence of atoms; i is the
\* position read next, cur the alternative being read, alts those finished
ReCompile(p, i, cur, alts) ==
    IF i > Len(p) THEN Append(alts, cur)
    ELSE IF p[i] = "\\" /\ i < Len(p)
         THEN ReCompile(p, i + 2, Append(cur, Lit(p[i + 1])), alts)
    ELSE IF p[i] = "|" THEN ReCompile(p, i + 1, <<>>, Append(alts, cur))
    ELSE IF p[i] = "." THEN ReCompile(p, i + 1, Append(cur, AnyChar), alts)
    ELSE ReCompile(p, i + 1, Append(cur, Lit(p[i])), alts)

\* one atom against one character of the subject, case folded or not
AtomMatches(a, c, ignorecase) ==
    \/ a.any
    \/ IF ignorecase THEN Lower(a.ch) = Lower(c) ELSE a.ch = c

\* re.search(p, s, flags): some alternative matches at some position
ReSearch(p, s, ignorecase) ==
    LET alts == ReCompile(p, 1, <<>>, <<>>)
    IN  \E a \in 1..Len(alts) :
          \E start \in 0..(Len(s) - Len(alts[a])) :
            \A j \in 1..Len(alts[a]) :
               AtomMatches(alts[a][j], s[start + j], ignorecase)

\* Series.str.contains(pattern, case=True, na=False) on one cell
StrContainsCase(cell, pattern) ==
    cell.kind = "str" /\ ReSearch(pattern, cell.chars, FALSE)

\* Series.str.contains(pattern, case=False, na=False) on one cell
StrContains(cell, pattern) ==
    cell.kind = "str" /\ ReSearch(pattern, cell.chars, TRUE)

(***************************************************************************)
(* Table cells.                                                            *)
(***************************************************************************)
Num(n) == [kind |-> "num", num |-> n]
NaN == [kind |-> "na", num |-> 0]
\* a token that is not a number ("Documentary" in a numeric column)
Txt == [kind |-> "text", num |-> 0]

GStr(s) == [kind |-> "str", chars |-> s]
GNa == [kind |-> "na", chars |-> <<>>]

\* pd.to_numeric(x, errors="coerce") on one cell
ToNumeric(c) == IF c.kind = "num" THEN c ELSE NaN

\* Series.fillna("") on one cell of the genres column
FillNa(g) == IF g.kind = "na" THEN GStr(<<>>) ELSE g

\* column >= m on one cell: a comparison with NaN is False
CellGeq(c, m) == c.kind = "num" /\ c.num >= m

\* column <= m on one cell
CellLeq(c, m) == c.kind = "num" /\ c.num <= m

\* column == m on one cell of an Int64 column: <NA> selects nothing
CellEq(c, m) == c.kind = "num" /\ c.num = m

\* an optional argument: None, or a value
None == [some |-> FALSE, v |-> 0]
Some(n) == [some |-> TRUE, v |-> n]

\* the truth value Python's "if x:" gives an optional integer
Truthy(x) == x.some /\ x.v # 0

(***************************************************************************)
(* The filter pipeline.  A table (DataFrame) is the sequence of its rows.  *)
(***************************************************************************)
\* one row of basics.merge(ratings): the title's columns, then the rating's
JoinRow(b, r) ==
    [tconst |-> b.tconst, titleType |-> b.titleType,
     primaryTitle |-> b.primaryTitle, isAdult |-> b.isAdult,
     startYear |-> b.startYear, runtimeMinutes |-> b.runtimeMinutes,
     genres |-> b.genres,
     averageRating |-> r.averageRating, numVotes |-> r.numVotes]

\* basics.merge(ratings, on="tconst", how="inner"): the order of the left
\* keys is kept, and a title with several ratings gives a row for each
MergeInner(basics, ratings) ==
    Concat([i \in 1..Len(basics) |->
              LET m == SelectSeq(ratings,
                                 LAMBDA r : r.tconst = basics[i].tconst)
              IN  [k \in 1..Len(m) |-> JoinRow(basics[i], m[k])]])

\* the title type test left out
TypeFilterSkipped(df, title_type) == df

\* df[df["titleType"] == title_type].copy()
TypeFilter(df, title_type) ==
    SelectSeq(df, LAMBDA r : r.titleType = title_type)

\* df["startYear"] = pd.to_numeric(df["startYear"], errors="coerce")
\*                     .astype("Int64"); df = df[df["startYear"] == year]
YearFilter(df, year) ==
    SelectSeq([i \in 1..Len(df) |->
                 [df[i] EXCEPT !.startYear = ToNumeric(@)]],
              LAMBDA r : CellEq(r.startYear, year))

\* apply_genre_filters(df, include_genres, exclude_genres)
ApplyGenreFilters(df, include_genres, exclude_genres) ==
    LET filled == [i \in 1..Len(df) |->
                     [df[i] EXCEPT !.genres = FillNa(@)]]
        included ==
            IF include_genres # <<>>
            THEN SelectSeq(filled, LAMBDA r :
                     StrContains(r.genres, BuildGenrePattern(include_genres)))
            ELSE filled
    IN  IF exclude_genres # <<>>
        THEN SelectSeq(included, LAMBDA r :
                 ~StrContains(r.genres, BuildGenrePattern(exclude_genres)))
        ELSE included

\* df[(df["numVotes"] >= min_votes) & (df["averageRating"] >= min_rating)]
QualityFilter(df, min_votes, min_rating) ==
    SelectSeq(df, LAMBDA r : /\ CellGeq(r.numVotes, min_votes)
                             /\ CellGeq(r.averageRating, min_rating))

\* apply_runtime_filters with a missing runtime let through both bounds
ApplyRuntimeFiltersKeepsMissing(df, min_runtime, max_runtime) ==
    IF ~min_runtime.some /\ ~max_runtime.some THEN df
    ELSE LET coerced == [i \in 1..Len(df) |->
                           [df[i] EXCEPT !.runtimeMinutes = ToNumeric(@)]]
         IN  SelectSeq(coerced, LAMBDA r :
                /\ min_runtime.some /\ r.runtimeMinutes.kind = "num"
                      => r.runtimeMinutes.num >= min_runtime.v
                /\ max_runtime.some /\ r.runtimeMinutes.kind = "num"
                      => r.runtimeMinutes.num <= max_runtime.v)

\* apply_runtime_filters(df, min_runtime, max_runtime)
ApplyRuntimeFilters(df, min_runtime, max_runtime) ==
    IF ~min_runtime.some /\ ~max_runtime.some THEN df
    ELSE LET coerced == [i \in 1..Len(df) |->
                           [df[i] EXCEPT !.runtimeMinutes = ToNumeric(@)]]
             lower == IF min_runtime.some
                      THEN SelectSeq(coerced, LAMBDA r :
                               CellGeq(r.runtimeMinutes, min_runtime.v))
                      ELSE coerced
         IN  IF max_runtime.some
             THEN SelectSeq(lower, LAMBDA r :
                      CellLeq(r.runtimeMinutes, max_runtime.v))
             ELSE lower

(***************************************************************************)
(* Sorting.                                                                *)
(***************************************************************************)
\* descending order on one key column, missing values last
KeyBeforeDesc(x, y) ==
    \/ x.kind = "num" /\ y.kind # "num"
    \/ x.kind = "num" /\ y.kind = "num" /\ x.num > y.num

KeySame(x, y) ==
    \/ x.kind # "num" /\ y.kind # "num"
    \/ x.kind = "num" /\ y.kind = "num" /\ x.num = y.num

\* a goes before b under by=[first, second], ascending=[False, False]
BeforeDesc2(a1, a2, b1, b2) ==
    \/ KeyBeforeDesc(a1, b1)
    \/ KeySame(a1, b1) /\ KeyBeforeDesc(a2, b2)

\* sort_values on several columns (a lexsort, which is stable): each row
\* goes to the place after the rows that go before it and the rows of
\* equal keys that stood before it; before is the set of the pairs <<i, j>>
\* where row i goes before row j by its keys
StableSort(df, before) ==
    LET n == Len(df)
        rank(i) == 1 + Cardinality(
            {j \in 1..n : \/ <<j, i>> \in before
                          \/ <<i, j>> \notin before /\ j < i})
    IN  [k \in 1..n |-> df[CHOOSE i \in 1..n : rank(i) = k]]

\* the permutations of 1..n
PermsOf(n) ==
    {p \in [1..n -> 1..n] : \A i, j \in 1..n : i # j => p[i] # p[j]}

\* sort_values on one column (numpy's quicksort, which is not stable): any
\* arrangement of the rows that is in ascending title order can come out
TitleSorted(df) ==
    {[k \in 1..Len(df) |-> df[p[k]]] :
        p \in {q \in PermsOf(Len(df)) :
                 \A k \in 1..(Len(df) - 1) :
                    ~StrLess(df[q[k + 1]].primaryTitle,
                             df[q[k]].primaryTitle)}}

\* the by-rating order with the vote tie-break left out
ByRatingNoTieBreak(df) ==
    StableSort(df, {ij \in (1..Len(df)) \X (1..Len(df)) :
        KeyBeforeDesc(df[ij[1]].averageRating, df[ij[2]].averageRating)})

\* by=["averageRating", "numVotes"], ascending=[False, False]
ByRating(df) ==
    StableSort(df, {ij \in (1..Len(df)) \X (1..Len(df)) :
        BeforeDesc2(df[ij[1]].averageRating, df[ij[1]].numVotes,
                    df[ij[2]].averageRating, df[ij[2]].numVotes)})

\* by=["numVotes", "averageRating"], ascending=[False, False]
ByVotes(df) ==
    StableSort(df, {ij \in (1..Len(df)) \X (1..Len(df)) :
        BeforeDesc2(df[ij[1]].numVotes, df[ij[1]].averageRating,
                    df[ij[2]].numVotes, df[ij[2]].averageRating)})

\* sort_titles(df, sort_by): the tables it can return
SortTitles(df, sort_by) ==
    IF sort_by = "votes" THEN {ByVotes(df)}
    ELSE IF sort_by = "title" THEN TitleSorted(df)
    ELSE {ByRating(df)}

\* a cap that keeps one row too many
HeadRowsOffByOne(df, n) ==
    IF n >= 0 THEN SubSeq(df, 1, IF n + 1 < Len(df) THEN n + 1 ELSE Len(df))
    ELSE SubSeq(df, 1, Len(df) + n)

\* df.head(n): the first n rows, or all but the last -n when n < 0
HeadRows(df, n) ==
    IF n >= 0 THEN SubSeq(df, 1, IF n < Len(df) THEN n ELSE Len(df))
    ELSE SubSeq(df, 1, Len(df) + n)

\* the rows of filter_one_year before the sort (lines 102 to 116)
FilteredRows(basics, ratings, year, cfg) ==
    ApplyRuntimeFilters(
        QualityFilter(
            ApplyGenreFilters(
                YearFilter(TypeFilter(MergeInner(basics, ratings),
                                      cfg.title_type),
                           year),
                cfg.include_genres, cfg.exclude_genres),
            cfg.min_votes, cfg.min_rating),
        cfg.min_runtime, cfg.max_runtime)

\* filter_one_year(basics, ratings, year, ...): each outcome is the sorted
\* table (what line 120 returns) and the table returned
FilterOneYear(basics, ratings, year, cfg) ==
    {[sorted |-> s,
      df |-> IF Truthy(cfg.limit_per_year)
             THEN HeadRows(s, cfg.limit_per_year.v) ELSE s] :
        s \in SortTitles(FilteredRows(basics, ratings, year, cfg),
                         cfg.sort_by)}

\* the caller's two tables with startYear coerced on the title table
\* itself, as line 106 would leave them if df shared the caller's data
InputsAfterCallYearCoerced(basics, ratings) ==
    [basics |-> [i \in 1..Len(basics) |->
                   [basics[i] EXCEPT !.startYear = ToNumeric(@)]],
     ratings |-> ratings]

\* the caller's two tables when filter_one_year returns.  Every assignment
\* of the call lands on a frame of its own: line 102 binds df to the new
\* frame merge() builds, lines 104 and 111 to 114 rebind it to .copy()s and
\* lines 107, 48 and 51 to boolean selections (new frames), and the column
\* assignments of lines 106, 44 and 61 and the in-place sorts of lines 74
\* to 85 write to the frame df names then.  basics and ratings are only
\* read, at line 102.
InputsAfterCall(basics, ratings) ==
    [basics |-> basics, ratings |-> ratings]

(***************************************************************************)
(* The command line and the year range.                                    *)
(***************************************************************************)
\* --start-year's default, the first year the model draws
FirstYear == 2000
\* --min-votes' default
DefaultMinVotes == 500
\* --min-rating's default, 6.5, in tenths
DefaultMinRating == 65

\* dt.date.today().year
CurrentYear == FirstYear + YearSpan

\* the choices of --format and of --sort-by
FormatChoices == {"text", "csv", "json"}
SortChoices == {"rating", "votes", "title"}

\* parse_args(): argparse accepts the command line (else it exits with 2)
ArgsAccepted(a) ==
    a.format \in FormatChoices /\ a.sort_by \in SortChoices

\* str.strip() of blanks
RECURSIVE Strip(_)
Strip(s) ==
    IF s # <<>> /\ Head(s) = " " THEN Strip(Tail(s))
    ELSE IF s # <<>> /\ s[Len(s)] = " " THEN Strip(SubSeq(s, 1, Len(s) - 1))
    ELSE s

\* value.split(","): i is the position read next, cur the item being read
RECURSIVE SplitComma(_, _, _)
SplitComma(s, i, cur) ==
    IF i > Len(s) THEN <<cur>>
    ELSE IF s[i] = "," THEN <<cur>> \o SplitComma(s, i + 1, <<>>)
    ELSE SplitComma(s, i + 1, Append(cur, s[i]))

\* an optional string argument
NoStr == [some |-> FALSE, s |-> <<>>]
SomeStr(s) == [some |-> TRUE, s |-> s]

\* parse_genre_list(value)
ParseGenreList(value) ==
    IF ~value.some \/ value.s = <<>> THEN <<>>
    ELSE LET items == SplitComma(value.s, 1, <<>>)
             kept == SelectSeq(items, LAMBDA item : Strip(item) # <<>>)
         IN  [i \in 1..Len(kept) |-> Strip(kept[i])]

\* range(lo, hi + 1)
Range(lo, hi) == [i \in 1..(IF hi >= lo THEN hi - lo + 1 ELSE 0) |-> lo + i - 1]

\* resolve_years without the test of start against end
ResolveYearsUnchecked(start_year, end_year, last_n_years) ==
    IF Truthy(last_n_years) /\ last_n_years.v < 1
    THEN [raised |-> TRUE, message |-> "--last-n-years must be >= 1",
          start |-> start_year, end |-> end_year, years |-> <<>>]
    ELSE LET hi == IF Truthy(last_n_years) THEN CurrentYear ELSE end_year
             lo == IF Truthy(last_n_years)
                   THEN hi - last_n_years.v + 1 ELSE start_year
         IN  [raised |-> FALSE, message |-> "",
              start |-> lo, end |-> hi, years |-> Range(lo, hi)]

\* resolve_years(start_year, end_year, last_n_years): the range, or the
\* ValueError raised; start and end are the function's variables of line 606
ResolveYears(start_year, end_year, last_n_years) ==
    IF Truthy(last_n_years) /\ last_n_years.v < 1
    THEN [raised |-> TRUE, message |-> "--last-n-years must be >= 1",
          start |-> start_year, end |-> end_year, years |-> <<>>]
    ELSE LET hi == IF Truthy(last_n_years) THEN CurrentYear ELSE end_year
             lo == IF Truthy(last_n_years)
                   THEN hi - last_n_years.v + 1 ELSE start_year
         IN  IF lo > hi
             THEN [raised |-> TRUE,
                   message |-> "start-year must be <= end-year",
                   start |-> lo, end |-> hi, years |-> <<>>]
             ELSE [raised |-> FALSE, message |-> "",
                   start |-> lo, end |-> hi, years |-> Range(lo, hi)]

\* main(), lines 634 to 637 and the arguments it hands on: the filter
\* configuration of the run
MainConfig(a) ==
    [min_votes |-> a.min_votes, min_rating |-> a.min_rating,
     title_type |-> a.title_type,
     include_genres |-> ParseGenreList(a.include_genres)
                        \o (IF a.genre.some /\ a.genre.s # <<>>
                            THEN <<a.genre.s>> ELSE <<>>),
     exclude_genres |-> ParseGenreList(a.exclude_genres),
     min_runtime |-> a.min_runtime, max_runtime |-> a.max_runtime,
     sort_by |-> a.sort_by, limit_per_year |-> a.limit_per_year]

\* main()'s choice of a branch by args.format (lines 639, 658 and 678): the
\* text report, the HTML page, or the table written as CSV or JSON
MainBranch(format) ==
    IF format = "text" THEN "text"
    ELSE IF format = "html" THEN "html"
    ELSE "table"

(***************************************************************************)
(* Rendering.                                                              *)
(***************************************************************************)
\* a line of the text report; the fields a kind does not use are blank
TextLine(kind, year, title, rating, votes, genres, id) ==
    [kind |-> kind, year |-> year, title |-> title, rating |-> rating,
     votes |-> votes, genres |-> genres, id |-> id]

\* str(year), "  (no titles)", "" and the newline that joins the lines
YearLine(year) == TextLine("year", year, <<>>, NaN, NaN, GNa, "")
NoTitlesLine == TextLine("no titles", 0, <<>>, NaN, NaN, GNa, "")
BlankLine == TextLine("blank", 0, <<>>, NaN, NaN, GNa, "")
NewLine == TextLine("newline", 0, <<>>, NaN, NaN, GNa, "")

\* format_movie_line(row)
FormatMovieLine(row) ==
    TextLine("movie", 0, row.primaryTitle, row.averageRating, row.numVotes,
             row.genres, row.tconst)

\* build_year_section with nothing said of an empty year
BuildYearSectionSilent(year, df) ==
    <<YearLine(year)>> \o [i \in 1..Len(df) |-> FormatMovieLine(df[i])]
        \o <<BlankLine>>

\* build_year_section(year, df)
BuildYearSection(year, df) ==
    IF df = <<>> THEN <<YearLine(year)>> \o <<NoTitlesLine, BlankLine>>
    ELSE <<YearLine(year)>> \o [i \in 1..Len(df) |-> FormatMovieLine(df[i])]
            \o <<BlankLine>>

\* write_output: "\n".join(lines), the text written
JoinLines(lines) ==
    Join(<<NewLine>>, [i \in 1..Len(lines) |-> <<lines[i]>>])

\* the columns of the table output, in order (main, lines 692 to 701)
Columns ==
    <<"tconst", "primaryTitle", "startYear", "averageRating", "numVotes",
      "genres", "runtimeMinutes", "titleType">>

\* df.columns of a joined table
JoinedColumns ==
    {"tconst", "titleType", "primaryTitle", "isAdult", "startYear",
     "runtimeMinutes", "genres", "averageRating", "numVotes"}

\* collect_rows' result from the frames in the wrong order
ConcatFramesReversed(frames) ==
    Concat([i \in 1..Len(frames) |-> frames[Len(frames) + 1 - i]])

\* pd.concat(frames, ignore_index=True), or the empty DataFrame
ConcatFrames(frames) ==
    Concat(frames)

\* main(), lines 702 to 706: the table written, its columns and its rows
OutputTable(df) ==
    IF df = <<>> THEN [columns |-> Columns, rows |-> <<>>]
    ELSE LET cols == SelectSeq(Columns, LAMBDA c : c \in JoinedColumns)
         IN  [columns |-> cols,
              rows |-> [i \in 1..Len(df) |->
                          [c \in {cols[k] : k \in 1..Len(cols)} |->
                              df[i][c]]]]

(***************************************************************************)
(* The inputs the model draws.                                             *)
(***************************************************************************)
\* one row of title.basics
Title(id, type, title, year, runtime, genres) ==
    [tconst |-> id, titleType |-> type, primaryTitle |-> title,
     isAdult |-> Num(0), startYear |-> year, runtimeMinutes |-> runtime,
     genres |-> genres]

\* one row of title.ratings
Rating(id, rating, votes) ==
    [tconst |-> id, averageRating |-> rating, numVotes |-> votes]

\* genre strings: "Dr,Co", "S-F", "Co", "co", "Dr"
GenDrCo == <<"D", "r", ",", "C", "o">>
GenSF == <<"S", "-", "F">>
GenCo == <<"C", "o">>
GenLowerCo == <<"c", "o">>
GenDr == <<"D", "r">>

\* the titles the tables are made of: three movies of the first year (two
\* of one title, two of one rating, two of one vote count), a movie of one
\* rating and vote count with the first, a short, a movie of the next year
\* on the default thresholds, and movies without a usable start year
TitleCatalog ==
    << Title("tt1", "movie", <<"B">>, Num(FirstYear), Num(90), GStr(GenDrCo)),
       Title("tt2", "movie", <<"a">>, Num(FirstYear), NaN, GNa),
       Title("tt3", "movie", <<"B">>, Num(FirstYear), Txt, GStr(GenSF)),
       Title("tt4", "short", <<"A">>, Num(FirstYear), Num(10), GStr(GenCo)),
       Title("tt5", "movie", <<"A", "b">>, Num(FirstYear + 1), Num(120),
             GStr(GenLowerCo)),
       Title("tt6", "movie", <<"A">>, Num(FirstYear), Num(100), GStr(GenDr)),
       Title("tt7", "movie", <<"A">>, NaN, Num(90), GStr(GenDr)),
       Title("tt8", "movie", <<"A">>, Txt, Num(90), GStr(GenDr)) >>

\* the ratings: one for each title, a second one of the third title whose
\* rating is missing, and one of no title
RatingsTable ==
    << Rating("tt1", Num(80), Num(1000)),
       Rating("tt2", Num(80), Num(2000)),
       Rating("tt3", Num(75), Num(2000)),
       Rating("tt3", NaN, Num(3000)),
       Rating("tt4", Num(90), Num(50000)),
       Rating("tt5", Num(DefaultMinRating), Num(DefaultMinVotes)),
       Rating("tt6", Num(80), Num(1000)),
       Rating("tt7", Num(80), Num(1000)),
       Rating("tt8", Num(80), Num(1000)),
       Rating("tt9", Num(80), Num(1000)) >>

\* the rows of cat at the positions in S, in cat's order
SubTable(cat, S) ==
    LET idx == SelectSeq([i \in 1..Len(cat) |-> i], LAMBDA i : i \in S)
    IN  [k \in 1..Len(idx) |-> cat[idx[k]]]

\* the title tables of at most MaxRows rows
TitleTables ==
    {SubTable(TitleCatalog, S) :
        S \in {T \in SUBSET (1..Len(TitleCatalog)) : Cardinality(T) <= MaxRows}}

\* the title files a run reads: all titles, the titles of the spec's
\* scenario, and a file without rows
TitleFiles ==
    {TitleCatalog, SubTable(TitleCatalog, {1, 4}), <<>>}

\* the years a call of filter_one_year is made for
CallYears == {FirstYear, FirstYear + 1}

\* the filter configurations a direct call of filter_one_year draws
FilterConfigs ==
    [min_votes : {DefaultMinVotes, 2000},
     min_rating : {DefaultMinRating, 80},
     title_type : {"movie", "short"},
     include_genres : {<<>>, <<GenLowerCo>>},
     exclude_genres : {<<>>},
     min_runtime : {None, Some(90)},
     max_runtime : {None, Some(100)},
     sort_by : SortChoices \cup {"year"},
     limit_per_year : {None, Some(0)} \cup {Some(n) : n \in 1..MaxLimit}]

\* the configuration of a state that has none yet
NoConfig ==
    [min_votes |-> 0, min_rating |-> 0, title_type |-> "",
     include_genres |-> <<>>, exclude_genres |-> <<>>,
     min_runtime |-> None, max_runtime |-> None,
     sort_by |-> "", limit_per_year |-> None]

\* the command lines a run draws
CommandLines ==
    [format : FormatChoices \cup {"html"},
     start_year : FirstYear..(FirstYear + YearSpan),
     end_year : FirstYear..(FirstYear + YearSpan),
     last_n_years : {None, Some(-1), Some(0), Some(1), Some(2)},
     min_votes : {DefaultMinVotes},
     min_rating : {DefaultMinRating},
     title_type : {"movie"},
     genre : {NoStr},
     include_genres : {NoStr, SomeStr(<<" ", "c", "o", ",", ",", "S", "-", "F">>)},
     exclude_genres : {NoStr, SomeStr(<<"d", "r", ",", " ", "x">>)},
     min_runtime : {None},
     max_runtime : {None},
     sort_by : SortChoices,
     limit_per_year : {None, Some(1)}]

\* a command line of a state that has none
NoCommandLine ==
    [format |-> "", start_year |-> 0, end_year |-> 0, last_n_years |-> None,
     min_votes |-> 0, min_rating |-> 0, title_type |-> "", genre |-> NoStr,
     include_genres |-> NoStr, exclude_genres |-> NoStr,
     min_runtime |-> None, max_runtime |-> None, sort_by |-> "",
     limit_per_year |-> None]

\* the genre cells and the genre lists a call of apply_genre_filters draws
GenreCells ==
    {GNa, GStr(<<>>), GStr(GenDrCo), GStr(GenSF), GStr(GenLowerCo),
     GStr(GenDr)}
IncludeLists ==
    {<<>>, <<GenLowerCo>>, <<GenSF>>, <<GenDr, GenCo>>, <<<<".">>>>}
ExcludeLists ==
    {<<>>, <<<<"C", "O">>>>, <<<<"d", "r">>, <<"s", "-", "f">>>>}

\* the tables of at most MaxRows rows a call of apply_genre_filters draws
GenreTables ==
    UNION {[1..n -> GenreCells] : n \in 0..MaxRows}

(***************************************************************************)
(* The state.                                                              *)
(***************************************************************************)
VARIABLES
    argv,         \* the command line of the run
    files,        \* the two dataset files: [basics, ratings]
    pc,           \* where the run (or the call) stands
    cfg,          \* the filter configuration handed to filter_one_year
    basics,       \* the title table, once loaded
    ratings,      \* the rating table, once loaded
    loaded,       \* load_data has run
    resolved,     \* what resolve_years gave
    yi,           \* the position in the year range of the year to do next
    out_lines,    \* build_output's out_lines
    frames,       \* collect_rows' frames
    sections,     \* what each call of filter_one_year returned, in order
    written,      \* the artifacts written, in order
    exit_status,  \* the exit status of the run, -1 while it runs
    df_in,        \* the table handed to a pipeline function called alone
    df_out        \* the table it returned

vars ==
    <<argv, files, pc, cfg, basics, ratings, loaded, resolved, yi, out_lines,
      frames, sections, written, exit_status, df_in, df_out>>

\* what resolve_years has given before it is called
Unresolved ==
    [raised |-> FALSE, message |-> "", start |-> 0, end |-> 0, years |-> <<>>]

\* the state at the start, but for the inputs drawn
Blank ==
    /\ loaded = FALSE
    /\ resolved = Unresolved
    /\ yi = 1
    /\ out_lines = <<>>
    /\ frames = <<>>
    /\ sections = <<>>
    /\ written = <<>>
    /\ exit_status = -1
    /\ df_in = <<>>
    /\ df_out = <<>>

(***************************************************************************)
(* A run of main().                                                        *)
(***************************************************************************)
Init ==
    /\ argv \in CommandLines
    /\ files \in [basics : TitleFiles, ratings : {RatingsTable}]
    /\ pc = "parse"
    /\ cfg = NoConfig
    /\ basics = <<>>
    /\ ratings = <<>>
    /\ Blank

\* parse_args() returns the arguments
ParseArgs ==
    /\ pc = "parse"
    /\ ArgsAccepted(argv)
    /\ pc' = "load"
    /\ UNCHANGED <<argv, files, cfg, basics, ratings, loaded, resolved, yi,
                   out_lines, frames, sections, written, exit_status, df_in,
                   df_out>>

\* parse_args() refuses the command line: argparse exits with status 2
ParseArgsRefused ==
    /\ pc = "parse"
    /\ ~ArgsAccepted(argv)
    /\ pc' = "exit"
    /\ exit_status' = 2
    /\ UNCHANGED <<argv, files, cfg, basics, ratings, loaded, resolved, yi,
                   out_lines, frames, sections, written, df_in, df_out>>

\* load_data(args.basics_path, args.ratings_path), line 629
LoadData ==
    /\ pc = "load"
    /\ basics' = files.basics
    /\ ratings' = files.ratings
    /\ loaded' = TRUE
    /\ pc' = "resolve"
    /\ UNCHANGED <<argv, files, cfg, resolved, yi, out_lines, frames,
                   sections, written, exit_status, df_in, df_out>>

\* resolve_years returns the range; main builds the genre lists and takes
\* the branch of the format (lines 631 to 678)
ResolveYearsReturns ==
    /\ pc = "resolve"
    /\ LET r == ResolveYears(argv.start_year, argv.end_year,
                             argv.last_n_years)
       IN  /\ ~r.raised
           /\ resolved' = r
    /\ cfg' = MainConfig(argv)
    /\ pc' = MainBranch(argv.format)
    /\ UNCHANGED <<argv, files, basics, ratings, loaded, yi, out_lines,
                   frames, sections, written, exit_status, df_in, df_out>>

\* resolve_years raises ValueError; main raises SystemExit(str(exc)), which
\* ends the run with the message and status 1 (lines 632 and 633)
ResolveYearsRaises ==
    /\ pc = "resolve"
    /\ LET r == ResolveYears(argv.start_year, argv.end_year,
                             argv.last_n_years)
       IN  /\ r.raised
           /\ resolved' = r
    /\ pc' = "exit"
    /\ exit_status' = 1
    /\ UNCHANGED <<argv, files, cfg, basics, ratings, loaded, yi, out_lines,
                   frames, sections, written, df_in, df_out>>

\* what a call of filter_one_year leaves in sections
Section(year, o) == [year |-> year, sorted |-> o.sorted, df |-> o.df]

\* build_output: one round of its loop (lines 415 to 431)
BuildOutputYear ==
    /\ pc = "text"
    /\ yi <= Len(resolved.years)
    /\ \E o \in FilterOneYear(basics, ratings, resolved.years[yi], cfg) :
          /\ sections' = Append(sections, Section(resolved.years[yi], o))
          /\ out_lines' = out_lines
                             \o BuildYearSection(resolved.years[yi], o.df)
    /\ yi' = yi + 1
    /\ basics' = InputsAfterCall(basics, ratings).basics
    /\ ratings' = InputsAfterCall(basics, ratings).ratings
    /\ UNCHANGED <<argv, files, pc, cfg, loaded, resolved,
                   frames, written, exit_status, df_in, df_out>>

\* build_output returns; write_output writes the text (lines 654 to 656)
WriteText ==
    /\ pc = "text"
    /\ yi > Len(resolved.years)
    /\ written' = Append(written, [format |-> "text",
                                   text |-> JoinLines(out_lines),
                                   columns |-> <<>>, rows |-> <<>>])
    /\ pc' = "exit"
    /\ exit_status' = 0
    /\ UNCHANGED <<argv, files, cfg, basics, ratings, loaded, resolved, yi,
                   out_lines, frames, sections, df_in, df_out>>

\* collect_rows: one round of its loop (lines 568 to 585)
CollectRowsYear ==
    /\ pc = "table"
    /\ yi <= Len(resolved.years)
    /\ \E o \in FilterOneYear(basics, ratings, resolved.years[yi], cfg) :
          /\ sections' = Append(sections, Section(resolved.years[yi], o))
          /\ frames' = IF o.df # <<>> THEN Append(frames, o.df) ELSE frames
    /\ yi' = yi + 1
    /\ basics' = InputsAfterCall(basics, ratings).basics
    /\ ratings' = InputsAfterCall(basics, ratings).ratings
    /\ UNCHANGED <<argv, files, pc, cfg, loaded, resolved,
                   out_lines, written, exit_status, df_in, df_out>>

\* collect_rows returns; main writes the table as CSV or as JSON (lines
\* 586 to 588 and 692 to 711)
WriteTable ==
    /\ pc = "table"
    /\ yi > Len(resolved.years)
    /\ LET t == OutputTable(ConcatFrames(frames))
       IN  written' = Append(written,
                             [format |-> IF argv.format = "csv"
                                         THEN "csv" ELSE "json",
                              text |-> <<>>,
                              columns |-> t.columns, rows |-> t.rows])
    /\ pc' = "exit"
    /\ exit_status' = 0
    /\ UNCHANGED <<argv, files, cfg, basics, ratings, loaded, resolved, yi,
                   out_lines, frames, sections, df_in, df_out>>

Next ==
    \/ ParseArgs
    \/ ParseArgsRefused
    \/ LoadData
    \/ ResolveYearsReturns
    \/ ResolveYearsRaises
    \/ BuildOutputYear
    \/ WriteText
    \/ CollectRowsYear
    \/ WriteTable

Spec == Init /\ [][Next]_vars

(***************************************************************************)
(* A call of filter_one_year alone, on any of the tables and under any of  *)
(* the configurations.                                                     *)
(***************************************************************************)
InitFilter ==
    /\ argv = NoCommandLine
    /\ files = [basics |-> <<>>, ratings |-> <<>>]
    /\ pc = "call"
    /\ cfg \in FilterConfigs
    /\ basics \in TitleTables
    /\ ratings = RatingsTable
    /\ Blank

\* filter_one_year(basics, ratings, year, ...) is called and returns
FilterCall ==
    /\ pc = "call"
    /\ \E year \in CallYears :
          \E o \in FilterOneYear(basics, ratings, year, cfg) :
             sections' = Append(sections, Section(year, o))
    /\ pc' = "returned"
    /\ basics' = InputsAfterCall(basics, ratings).basics
    /\ ratings' = InputsAfterCall(basics, ratings).ratings
    /\ UNCHANGED <<argv, files, cfg, loaded, resolved, yi,
                   out_lines, frames, written, exit_status, df_in, df_out>>

SpecFilter == InitFilter /\ [][FilterCall]_vars

(***************************************************************************)
(* Calls of filter_one_year one after another on one pair of loaded        *)
(* tables, for any years in any order, each under a configuration of its   *)
(* own.  files keeps the tables as they were loaded.                       *)
(***************************************************************************)
\* the configurations a call of the sequence draws
CallConfigs ==
    [min_votes : {DefaultMinVotes}, min_rating : {DefaultMinRating},
     title_type : {"movie"},
     include_genres : {<<>>}, exclude_genres : {<<>>},
     min_runtime : {None, Some(90)}, max_runtime : {None},
     sort_by : {"rating", "title"},
     limit_per_year : {None}]

\* what one call of the sequence was asked and what it returned
CallSection(year, c, o) ==
    [year |-> year, cfg |-> c, sorted |-> o.sorted, df |-> o.df]

InitCalls ==
    /\ argv = NoCommandLine
    /\ basics \in TitleTables
    /\ ratings = RatingsTable
    /\ files = [basics |-> basics, ratings |-> ratings]
    /\ pc = "call"
    /\ cfg = NoConfig
    /\ Blank

\* one more call filter_one_year(basics, ratings, year, ...) returns
FilterCallAgain ==
    /\ pc = "call"
    /\ Len(sections) < MaxCalls
    /\ \E year \in CallYears :
          \E c \in CallConfigs :
             \E o \in FilterOneYear(basics, ratings, year, c) :
                /\ sections' = Append(sections, CallSection(year, c, o))
                /\ cfg' = c
    /\ basics' = InputsAfterCall(basics, ratings).basics
    /\ ratings' = InputsAfterCall(basics, ratings).ratings
    /\ UNCHANGED <<argv, files, pc, loaded, resolved, yi,
                   out_lines, frames, written, exit_status, df_in, df_out>>

SpecCalls == InitCalls /\ [][FilterCallAgain]_vars

(***************************************************************************)
(* A call of apply_genre_filters alone.                                    *)
(***************************************************************************)
InitGenre ==
    /\ argv = NoCommandLine
    /\ files = [basics |-> <<>>, ratings |-> <<>>]
    /\ pc = "call"
    /\ \E inc \in IncludeLists, exc \in ExcludeLists :
          cfg = [NoConfig EXCEPT !.include_genres = inc,
                                 !.exclude_genres = exc]
    /\ basics = <<>>
    /\ ratings = <<>>
    /\ loaded = FALSE
    /\ resolved = Unresolved
    /\ yi = 1
    /\ out_lines = <<>>
    /\ frames = <<>>
    /\ sections = <<>>
    /\ written = <<>>
    /\ exit_status = -1
    /\ \E t \in GenreTables :
          df_in = [i \in 1..Len(t) |-> [row |-> i, genres |-> t[i]]]
    /\ df_out = <<>>

\* apply_genre_filters(df, include_genres, exclude_genres) is called and
\* returns
GenreCall ==
    /\ pc = "call"
    /\ df_out' = ApplyGenreFilters(df_in, cfg.include_genres,
                                   cfg.exclude_genres)
    /\ pc' = "returned"
    /\ UNCHANGED <<argv, files, cfg, basics, ratings, loaded, resolved, yi,
                   out_lines, frames, sections, written, exit_status, df_in>>

SpecGenre == InitGenre /\ [][GenreCall]_vars

(***************************************************************************)
(* Properties.                                                             *)
(***************************************************************************)
\* the smaller of two numbers
Min(a, b) == IF a < b THEN a ELSE b

\* the year range the options ask for: the last N years when N >= 1 is
\* given, else the explicit start and end
AskedStart ==
    IF argv.last_n_years.some /\ argv.last_n_years.v >= 1
    THEN CurrentYear - argv.last_n_years.v + 1 ELSE argv.start_year
AskedEnd ==
    IF argv.last_n_years.some /\ argv.last_n_years.v >= 1
    THEN CurrentYear ELSE argv.end_year

\* sections holds one section for each year of the asked range, ascending
OneSectionPerYear ==
    /\ Len(sections) = AskedEnd - AskedStart + 1
    /\ \A k \in 1..Len(sections) : sections[k].year = AskedStart + k - 1

\* C1: every row filter_one_year returns for year Y is the join of a title
\* and a rating of the tables such that the title's type is the configured
\* one, its start year is the number Y (a missing or non-numeric start year
\* never gets through), the votes are >= min_votes, the rating is
\* >= min_rating, and the runtime is a number within each bound configured.
C1_SectionRowsPassEveryFilter ==
    \A k \in 1..Len(sections) :
      \A i \in 1..Len(sections[k].df) :
        LET row == sections[k].df[i]
        IN  \E b \in 1..Len(basics), r \in 1..Len(ratings) :
              /\ basics[b].tconst = row.tconst
              /\ ratings[r].tconst = row.tconst
              /\ row.titleType = basics[b].titleType
              /\ row.titleType = cfg.title_type
              /\ basics[b].startYear.kind = "num"
              /\ basics[b].startYear.num = sections[k].year
              /\ row.startYear = Num(sections[k].year)
              /\ row.numVotes = ratings[r].numVotes
              /\ row.numVotes.kind = "num"
              /\ row.numVotes.num >= cfg.min_votes
              /\ row.averageRating = ratings[r].averageRating
              /\ row.averageRating.kind = "num"
              /\ row.averageRating.num >= cfg.min_rating
              /\ cfg.min_runtime.some =>
                    /\ basics[b].runtimeMinutes.kind = "num"
                    /\ basics[b].runtimeMinutes.num >= cfg.min_runtime.v
              /\ cfg.max_runtime.some =>
                    /\ basics[b].runtimeMinutes.kind = "num"
                    /\ basics[b].runtimeMinutes.num <= cfg.max_runtime.v

\* C1's case: a call under both runtime bounds returned rows, from a table
\* that also holds a title of another type, one with a start year that is
\* no number and one of a runtime out of the bounds or unknown
C1_Witness ==
    /\ pc = "returned"
    /\ sections[1].df # <<>>
    /\ cfg.min_runtime.some /\ cfg.max_runtime.some
    /\ \E b \in 1..Len(basics) : basics[b].titleType # cfg.title_type
    /\ \E b \in 1..Len(basics) : basics[b].startYear.kind # "num"
    /\ Len(sections[1].df) = 1
    /\ Len(basics) = 3

\* C2: once the year range is resolved with --last-n-years set below 1
\* (0 and the negative values), the run has ended on a configuration error
\* with a non-zero status, and has not gone on with the explicit years.
C2_LastNYearsBelowOneIsAnError ==
    (/\ loaded
     /\ pc # "resolve"
     /\ argv.last_n_years.some
     /\ argv.last_n_years.v < 1)
    => (pc = "exit" /\ exit_status = 1 /\ resolved.raised)

\* C3: a run that ends on a configuration error has not loaded the
\* datasets.
C3_ConfigurationErrorBeforeLoading ==
    (pc = "exit" /\ exit_status = 1) => ~loaded

\* C4: in a run whose year range has its start after its end, no call of
\* filter_one_year is made and nothing is written, under every format, and
\* the run ends on the configuration error with status 1.
C4_InvalidRangeFailsBeforeFiltering ==
    AskedStart > AskedEnd =>
        /\ sections = <<>>
        /\ out_lines = <<>>
        /\ frames = <<>>
        /\ written = <<>>
        /\ pc \notin {"text", "table", "html"}
        /\ (pc = "exit" /\ ArgsAccepted(argv)) =>
              (exit_status = 1 /\ resolved.raised)

\* C4's case: a run with the start after the end has ended on the error
C4_Witness ==
    /\ pc = "exit"
    /\ exit_status = 1
    /\ argv.start_year > argv.end_year
    /\ ~argv.last_n_years.some
    /\ loaded

\* t occurs in s when case is ignored
OccursIgnoringCase(s, t) ==
    \E start \in 0..(Len(s) - Len(t)) :
       \A j \in 1..Len(t) : Lower(s[start + j]) = Lower(t[j])

\* t occurs in s, character for character
OccursExactly(s, t) ==
    \E start \in 0..(Len(s) - Len(t)) :
       \A j \in 1..Len(t) : s[start + j] = t[j]

\* the genre string of a cell, empty when the cell is missing
GenreString(g) == IF g.kind = "str" THEN g.chars ELSE <<>>

\* the genre filter is to keep row i of df_in
GenreKeeps(i) ==
    LET g == GenreString(df_in[i].genres)
    IN  /\ \/ cfg.include_genres = <<>>
           \/ \E k \in 1..Len(cfg.include_genres) :
                 OccursIgnoringCase(g, cfg.include_genres[k])
        /\ \A k \in 1..Len(cfg.exclude_genres) :
              ~OccursIgnoringCase(g, cfg.exclude_genres[k])

\* C5: apply_genre_filters returns, in their order, exactly the rows whose
\* genre string holds (case ignored) one of the include genres, or any row
\* when there is no include genre, and holds none of the exclude genres; a
\* row of a missing genre string is returned only when there is no include
\* genre.
C5_GenreFilterKeepsIncludedNotExcluded ==
    pc = "returned" =>
        /\ [i \in 1..Len(df_out) |-> df_out[i].row]
              = SelectSeq([i \in 1..Len(df_in) |-> i], GenreKeeps)
        /\ \A i \in 1..Len(df_out) :
              df_in[df_out[i].row].genres.kind = "na" =>
                 cfg.include_genres = <<>>
        /\ (cfg.include_genres = <<>> /\ cfg.exclude_genres = <<>>) =>
              Len(df_out) = Len(df_in)

\* C5's case: under include and exclude genres, of three rows one is kept
\* on a match that differs in case, one holds an include and an exclude
\* genre and is dropped, and one of a missing genre string is dropped
C5_Witness ==
    /\ pc = "returned"
    /\ cfg.include_genres # <<>>
    /\ cfg.exclude_genres # <<>>
    /\ Len(df_in) = 3
    /\ Len(df_out) = 1
    /\ \E k \in 1..Len(cfg.include_genres) :
          /\ OccursIgnoringCase(GenreString(df_out[1].genres),
                                cfg.include_genres[k])
          /\ ~OccursExactly(GenreString(df_out[1].genres),
                            cfg.include_genres[k])
    /\ \E i \in 1..3 : df_in[i].genres.kind = "na"
    /\ \E i \in 1..3 :
          /\ \E k \in 1..Len(cfg.include_genres) :
                OccursIgnoringCase(GenreString(df_in[i].genres),
                                   cfg.include_genres[k])
          /\ \E k \in 1..Len(cfg.exclude_genres) :
                OccursIgnoringCase(GenreString(df_in[i].genres),
                                   cfg.exclude_genres[k])

\* rows a and b, a first, stand in the by-rating order
InRatingOrder(a, b) ==
    /\ a.averageRating.kind = "num" /\ b.averageRating.kind = "num"
    /\ a.numVotes.kind = "num" /\ b.numVotes.kind = "num"
    /\ a.averageRating.num >= b.averageRating.num
    /\ a.averageRating.num = b.averageRating.num =>
          a.numVotes.num >= b.numVotes.num

\* rows a and b, a first, stand in the by-votes order
InVotesOrder(a, b) ==
    /\ a.averageRating.kind = "num" /\ b.averageRating.kind = "num"
    /\ a.numVotes.kind = "num" /\ b.numVotes.kind = "num"
    /\ a.numVotes.num >= b.numVotes.num
    /\ a.numVotes.num = b.numVotes.num =>
          a.averageRating.num >= b.averageRating.num

\* rows a and b, a first, stand in the by-title order
InTitleOrder(a, b) ==
    \/ a.primaryTitle = b.primaryTitle
    \/ StrLess(a.primaryTitle, b.primaryTitle)

\* C6: the rows of every section filter_one_year returns stand in the order
\* of the configured sort: by votes, by title, or, under "rating" and under
\* any other name, by rating; and under a name that is none of the three
\* the sorted table is one the "rating" sort gives.
C6_SectionInConfiguredOrder ==
    \A k \in 1..Len(sections) :
      /\ \A i \in 1..(Len(sections[k].df) - 1) :
            LET a == sections[k].df[i]
                b == sections[k].df[i + 1]
            IN  IF cfg.sort_by = "votes" THEN InVotesOrder(a, b)
                ELSE IF cfg.sort_by = "title" THEN InTitleOrder(a, b)
                ELSE InRatingOrder(a, b)
      /\ cfg.sort_by \notin {"rating", "votes", "title"} =>
            \E o \in FilterOneYear(basics, ratings, sections[k].year,
                                   [cfg EXCEPT !.sort_by = "rating"]) :
               o.df = sections[k].df

\* C6's case: under a sort name that is none of the three, two rows of one
\* rating came out with the one of more votes first, against their order
\* in the title table
C6_Witness ==
    /\ pc = "returned"
    /\ cfg.sort_by \notin {"rating", "votes", "title"}
    /\ Len(sections[1].df) >= 2
    /\ sections[1].df[1].averageRating = sections[1].df[2].averageRating
    /\ sections[1].df[1].numVotes.num > sections[1].df[2].numVotes.num
    /\ \E i, j \in 1..Len(basics) :
          /\ i < j
          /\ basics[j].tconst = sections[1].df[1].tconst
          /\ basics[i].tconst = sections[1].df[2].tconst

\* C7: under a per-year cap N >= 1 the section returned has at most N rows
\* and is the first min(N, length) rows of the sorted table, which is a
\* section the same call gives with no cap.
C7_CapKeepsPrefixOfUncapped ==
    \A k \in 1..Len(sections) :
      (cfg.limit_per_year.some /\ cfg.limit_per_year.v >= 1) =>
        LET n == cfg.limit_per_year.v
            u == sections[k].sorted
        IN  /\ Len(sections[k].df) <= n
            /\ Len(sections[k].df) = Min(n, Len(u))
            /\ \A i \in 1..Len(sections[k].df) : sections[k].df[i] = u[i]
            /\ \E o \in FilterOneYear(basics, ratings, sections[k].year,
                                      [cfg EXCEPT !.limit_per_year = None]) :
                  o.df = u

\* C7's case: a cap cut a section of more rows than the cap
C7_Witness ==
    /\ pc = "returned"
    /\ cfg.limit_per_year.some
    /\ cfg.limit_per_year.v >= 1
    /\ Len(sections[1].sorted) > cfg.limit_per_year.v
    /\ Len(sections[1].df) = cfg.limit_per_year.v

\* the lines the text report is to hold for one section: the year, a line
\* for each row or the one "(no titles)" line, and a blank line
SectionText(sec) ==
    <<YearLine(sec.year)>>
       \o (IF Len(sec.df) = 0 THEN <<NoTitlesLine>>
           ELSE [i \in 1..Len(sec.df) |->
                   TextLine("movie", 0, sec.df[i].primaryTitle,
                            sec.df[i].averageRating, sec.df[i].numVotes,
                            sec.df[i].genres, sec.df[i].tconst)])
       \o <<BlankLine>>

\* C8: the text written by a run that completes is, line by line, one
\* section for each year of the range in ascending order, the years of no
\* row among them: the year, then a line for each row of the year's
\* section in its order or the one "(no titles)" line, then a blank line.
C8_TextHasOneSectionPerYear ==
    (pc = "exit" /\ exit_status = 0 /\ argv.format = "text") =>
        /\ OneSectionPerYear
        /\ Len(written) = 1
        /\ written[1].format = "text"
        /\ LET lines == Concat([k \in 1..Len(sections) |->
                                  SectionText(sections[k])])
               text == written[1].text
           IN  /\ Len(text) = 2 * Len(lines) - 1
               /\ \A i \in 1..Len(lines) : text[2 * i - 1] = lines[i]
               /\ \A i \in 1..(Len(lines) - 1) : text[2 * i] = NewLine

\* C8's case: a text report of a range with a year of rows, then a year of
\* no row, then the end of the range
C8_Witness ==
    /\ pc = "exit"
    /\ exit_status = 0
    /\ argv.format = "text"
    /\ Len(sections) >= 2
    /\ \E j, k \in 1..Len(sections) :
          /\ j < k
          /\ Len(sections[j].df) >= 2
          /\ sections[k].df = <<>>

\* C9: the table written as CSV or JSON by a run that completes holds, in
\* ascending year order, the rows of the sections of all years of the
\* range, each section's rows in their order, under the eight fixed
\* columns; with no row at all it still has the eight columns.
C9_TableIsSectionsInYearOrder ==
    (pc = "exit" /\ exit_status = 0 /\ argv.format \in {"csv", "json"}) =>
        /\ OneSectionPerYear
        /\ Len(written) = 1
        /\ written[1].format = argv.format
        /\ written[1].columns =
              <<"tconst", "primaryTitle", "startYear", "averageRating",
                "numVotes", "genres", "runtimeMinutes", "titleType">>
        /\ LET flat == Concat([k \in 1..Len(sections) |-> sections[k].df])
               rows == written[1].rows
           IN  /\ Len(rows) = Len(flat)
               /\ \A i \in 1..Len(rows) :
                     /\ DOMAIN rows[i] =
                           {written[1].columns[c] : c \in 1..8}
                     /\ \A c \in DOMAIN rows[i] : rows[i][c] = flat[i][c]

\* C9's case: a table of a range with two years of rows and a year of none
C9_Witness ==
    /\ pc = "exit"
    /\ exit_status = 0
    /\ argv.format \in {"csv", "json"}
    /\ \E j, k, e \in 1..Len(sections) :
          /\ j < k
          /\ sections[j].df # <<>>
          /\ sections[k].df # <<>>
          /\ sections[e].df = <<>>
    /\ Len(written[1].rows) >= 3

\* C10: a run asked for one of the four formats text, csv, json and html
\* that does not end on a configuration error completes with exactly one
\* artifact written, in the format asked for.
C10_EachOfFourFormatsIsWritten ==
    (/\ pc = "exit"
     /\ exit_status # 1
     /\ argv.format \in {"text", "csv", "json", "html"})
    => /\ exit_status = 0
       /\ Len(written) = 1
       /\ written[1].format = argv.format

\* two rows equal on every key of the strategy: the title under "title",
\* the rating and the votes under "votes", "rating" and any other name
SameSortKeys(a, b, sort_by) ==
    IF sort_by = "title" THEN a.primaryTitle = b.primaryTitle
    ELSE /\ a.averageRating.kind = "num"
         /\ a.averageRating = b.averageRating
         /\ a.numVotes.kind = "num"
         /\ a.numVotes = b.numVotes

\* the place of the row of one identifier in a table
PlaceOf(df, tconst) == CHOOSE p \in 1..Len(df) : df[p].tconst = tconst

\* C11: under every strategy two rows of a section that are equal on all
\* of the strategy's sort keys stand in the order they had in the joined
\* table before the sort, and sorting the section again under the same
\* strategy gives the same sequence.
C11_SortIsStableUnderEveryStrategy ==
    \A k \in 1..Len(sections) :
      LET pre == FilteredRows(basics, ratings, sections[k].year, cfg)
          sec == sections[k].df
      IN  /\ \A i, j \in 1..Len(sec) :
                (i < j /\ SameSortKeys(sec[i], sec[j], cfg.sort_by)) =>
                   PlaceOf(pre, sec[i].tconst) < PlaceOf(pre, sec[j].tconst)
          /\ \A again \in SortTitles(sec, cfg.sort_by) : again = sec

\* a table with the runtime column blanked
WithoutRuntime(df) ==
    [i \in 1..Len(df) |-> [df[i] EXCEPT !.runtimeMinutes = NaN]]

\* the runtime cell a title has in the title table
RuntimeOf(tconst) ==
    basics[CHOOSE b \in 1..Len(basics) : basics[b].tconst = tconst]
        .runtimeMinutes

\* C12: with a minimum or a maximum runtime configured (or both) no row of
\* a section has a missing or non-numeric runtime; with neither configured
\* the section is one the same call gives on the title table with the
\* runtime column blanked, and its rows keep the runtime cells they had.
C12_MissingRuntimeExcludedOnlyUnderBounds ==
    \A k \in 1..Len(sections) :
      LET sec == sections[k].df
      IN  IF cfg.min_runtime.some \/ cfg.max_runtime.some
          THEN \A i \in 1..Len(sec) :
                  /\ RuntimeOf(sec[i].tconst).kind = "num"
                  /\ sec[i].runtimeMinutes.kind = "num"
          ELSE /\ \E o \in FilterOneYear(WithoutRuntime(basics), ratings,
                                         sections[k].year, cfg) :
                     o.df = WithoutRuntime(sec)
               /\ \A i \in 1..Len(sec) :
                     sec[i].runtimeMinutes = RuntimeOf(sec[i].tconst)

\* C12's case: under a minimum runtime alone the section holds a row, and a
\* title of missing or non-numeric runtime that the same call with no
\* runtime bound returns is not in it
C12_Witness ==
    /\ pc = "returned"
    /\ cfg.min_runtime.some
    /\ ~cfg.max_runtime.some
    /\ sections[1].df # <<>>
    /\ \E o \in FilterOneYear(basics, ratings, sections[1].year,
                              [cfg EXCEPT !.min_runtime = None]) :
          \E i \in 1..Len(o.df) :
             /\ o.df[i].runtimeMinutes.kind # "num"
             /\ \A j \in 1..Len(sections[1].df) :
                   sections[1].df[j].tconst # o.df[i].tconst

=============================================================================
